---- MODULE Spec2Model ----
(***************************************************************************)
(* State-machine model of tf_version/training_loop.py: the adversarial     *)
(* train_step (one update of the generator and of the discriminator) and   *)
(* the epoch loop train(dataset, epochs, dataset_size, batch_size) with    *)
(* its per-epoch sampling, checkpoint, export and loss report.             *)
(*                                                                         *)
(* Network parameters and optimizer states are modelled by the sequence of *)
(* updates applied to them since construction (their value is a function   *)
(* of that sequence); a gradient is modelled by the loss it differentiates,*)
(* the variables it is taken against, and the forward pass it was recorded *)
(* on.  The two loss scalars of a step are drawn from LossOutcomes.        *)
(***************************************************************************)
EXTENDS Integers, Sequences, FiniteSets, TLC

\* ---------------------------------------------------------------- bounds
MaxEpochs == 2
MaxDatasetSize == 2
MaxBatchSize == 2
\* bounds of the batch-count specification (SpecCount)
MaxCountSize == 100
MaxCountBatch == 32

\* ------------------------------------------------------ program constants
num_examples_to_generate == 16
noise_dim == 100
\* line 82: the period of the checkpoint
SaveEvery == 1

NONE == "none"
\* the (gen_loss, disc_loss) scalars one train_step may compute
LossOutcomes == {<<1, 2>>, <<2, 1>>}
\* line 19: what tf.random.normal([num_examples_to_generate, noise_dim]) may return
SeedValues ==
  {[shape |-> <<num_examples_to_generate, noise_dim>>, draw |-> d] : d \in {"a", "b"}}

VARIABLES
  dataset,        \* the batches the dataset yields on every iteration over it
  epochs,         \* train's argument
  dataset_size,   \* train's argument
  batch_size,     \* train's argument
  seed,           \* module-level visualisation noise, sampled once
  generator,      \* updates applied to generator.trainable_variables
  discriminator,  \* updates applied to discriminator.trainable_variables
  generator_optimizer,      \* updates that went through generator_optimizer
  discriminator_optimizer,  \* updates that went through discriminator_optimizer
  pc,             \* position in train / train_step
  epoch,          \* loop variable of train (0-based)
  it,             \* number of batches the for loop has taken this epoch
  loc,            \* train's locals: gen_loss_sum, disc_loss_sum, batch_num, gen_loss,
                  \* disc_loss (bound: whether gen_loss and disc_loss are assigned yet)
  ts,             \* train_step's frame
  evals,          \* number of forward evaluations recorded so far (tape ids)
  calls,          \* invocations of train_step and of the collaborators, in order
  checkpoints,    \* what checkpoint.save wrote, in order
  exports,        \* what tf.saved_model.save wrote, in order
  reports,        \* the loss lines printed, one record per epoch
  epochLosses     \* the (gen_loss, disc_loss) pairs train_step returned this epoch

vars == <<dataset, epochs, dataset_size, batch_size, seed, generator, discriminator,
          generator_optimizer, discriminator_optimizer, pc, epoch, it, loc, ts,
          evals, calls, checkpoints, exports, reports, epochLosses>>

inputs == <<dataset, epochs, dataset_size, batch_size, seed>>
nets == <<generator, discriminator, generator_optimizer, discriminator_optimizer>>
outputs == <<checkpoints, exports, reports>>

\* ------------------------------------------------------------- the dataset
Min(a, b) == IF a <= b THEN a ELSE b

RECURSIVE BatchSizes(_, _)
\* sizes of the batches of n images taken b at a time, the last one smaller
BatchSizes(n, b) ==
  IF n <= 0 THEN <<>> ELSE <<Min(n, b)>> \o BatchSizes(n - Min(n, b), b)

\* the batches of a dataset of n images batched by b: each has an identity and a size
Batches(n, b) ==
  LET s == BatchSizes(n, b) IN [i \in 1..Len(s) |-> [id |-> i, size |-> s[i]]]

\* ------------------------------------------------------------ line 66
\* np.ceil(a / b) for a >= 0 and b >= 1: the quotient, rounded up when inexact
CeilDiv(a, b) == IF a % b = 0 THEN a \div b ELSE (a \div b) + 1

\* line 66 with the quotient truncated instead of rounded up
BatchNum_floor(ds, bs) == ds \div bs

\* line 66: batch_num
BatchNum(ds, bs) == CeilDiv(ds, bs)

\* ------------------------------------------------------------ frames
EmptyFrame ==
  [images |-> NONE, noise |-> NONE, generated_images |-> NONE,
   real_output |-> NONE, fake_output |-> NONE,
   gen_loss |-> NONE, disc_loss |-> NONE,
   gradients_of_generator |-> NONE, gradients_of_discriminator |-> NONE,
   gen0 |-> 0, disc0 |-> 0, fake_evals |-> 0]

EmptyLocals ==
  [gen_loss_sum |-> 0, disc_loss_sum |-> 0, batch_num |-> 0,
   gen_loss |-> 0, disc_loss |-> 0, bound |-> FALSE]

\* lines 19-32 and the entry of train: the seed is sampled, the networks and
\* optimizers are fresh, nothing has been called or written
Constructed ==
  /\ seed \in SeedValues
  /\ generator = <<>>
  /\ discriminator = <<>>
  /\ generator_optimizer = <<>>
  /\ discriminator_optimizer = <<>>
  /\ pc = "epoch"
  /\ epoch = 0
  /\ it = 0
  /\ loc = EmptyLocals
  /\ ts = EmptyFrame
  /\ evals = 0
  /\ calls = <<>>
  /\ checkpoints = <<>>
  /\ exports = <<>>
  /\ reports = <<>>
  /\ epochLosses = <<>>

\* train is called once, on a dataset of n images batched by batch_size (n >= 0,
\* batch_size >= 1); dataset_size is the caller's count and need not be n
Init ==
  /\ epochs \in 0..MaxEpochs
  /\ dataset_size \in 0..MaxDatasetSize
  /\ batch_size \in 1..MaxBatchSize
  /\ \E n \in 0..MaxDatasetSize : dataset = Batches(n, batch_size)
  /\ Constructed

\* ------------------------------------------------------- invocation records
\* epoch is the 1-based epoch the call is made in, 0 after the last epoch
Call(op, batch, label, sd, model) ==
  [op |-> op, epoch |-> epoch + 1, batch |-> batch, label |-> label, seed |-> sd,
   model |-> model]

\* an exception leaving train: nothing of train runs after it
Raise(line) == Call("raise", 0, line, NONE, <<>>)

\* ------------------------------------------------------- train_step, 38-57
TSPcs == {"ts_generator", "ts_real", "ts_fake", "ts_losses", "ts_grad_gen",
          "ts_grad_disc", "ts_apply_gen", "ts_apply_disc", "ts_return"}

\* a forward evaluation of a network on an input, recorded on the tapes
Forward(net, input, params, n) ==
  [by |-> net, input |-> input, version |-> Len(params), eval |-> n]

\* lines 39-43: batch_size from the batch, fresh noise, generator forward pass
TS_Generator ==
  /\ pc = "ts_generator"
  /\ LET noise == [shape |-> <<ts.images.size, noise_dim>>, draw |-> evals + 1]
     IN ts' = [ts EXCEPT !.noise = noise,
                         !.generated_images = Forward("generator", noise, generator, evals + 1)]
  /\ evals' = evals + 1
  /\ pc' = "ts_real"
  /\ UNCHANGED <<inputs, nets, outputs, epoch, it, loc, calls, epochLosses>>

\* line 45
TS_DiscReal ==
  /\ pc = "ts_real"
  /\ ts' = [ts EXCEPT !.real_output =
                 Forward("discriminator", ts.images, discriminator, evals + 1)]
  /\ evals' = evals + 1
  /\ pc' = "ts_fake"
  /\ UNCHANGED <<inputs, nets, outputs, epoch, it, loc, calls, epochLosses>>

\* line 46
TS_DiscFake ==
  /\ pc = "ts_fake"
  /\ ts' = [ts EXCEPT !.fake_output =
                 Forward("discriminator", ts.generated_images, discriminator, evals + 1),
                      !.fake_evals = @ + 1]
  /\ evals' = evals + 1
  /\ pc' = "ts_losses"
  /\ UNCHANGED <<inputs, nets, outputs, epoch, it, loc, calls, epochLosses>>

\* losses.generator_loss(fake_output): a scalar computed from the fake scores
GeneratorLoss(fake, v) ==
  [name |-> "gen_loss", value |-> v, real |-> NONE, fake |-> fake]

\* losses.discriminator_loss(real_output, fake_output)
DiscriminatorLoss(real, fake, v) ==
  [name |-> "disc_loss", value |-> v, real |-> real, fake |-> fake]

\* lines 48-49
TS_Losses ==
  /\ pc = "ts_losses"
  /\ \E v \in LossOutcomes :
       ts' = [ts EXCEPT !.gen_loss = GeneratorLoss(ts.fake_output, v[1]),
                        !.disc_loss = DiscriminatorLoss(ts.real_output, ts.fake_output, v[2])]
  /\ pc' = "ts_grad_gen"
  /\ UNCHANGED <<inputs, nets, outputs, epoch, it, loc, evals, calls, epochLosses>>

\* tape.gradient(loss, net.trainable_variables): the derivative of the recorded
\* loss with respect to one network's variables, at the values the tape recorded
TapeGradient(loss, wrt) ==
  [loss |-> loss.name, wrt |-> wrt, fake_eval |-> loss.fake.eval,
   gen_version |-> loss.fake.input.version, disc_version |-> loss.fake.version]

\* line 51
TS_GradGen ==
  /\ pc = "ts_grad_gen"
  /\ ts' = [ts EXCEPT !.gradients_of_generator = TapeGradient(ts.gen_loss, "generator")]
  /\ pc' = "ts_grad_disc"
  /\ UNCHANGED <<inputs, nets, outputs, epoch, it, loc, evals, calls, epochLosses>>

\* line 52
TS_GradDisc ==
  /\ pc = "ts_grad_disc"
  /\ ts' = [ts EXCEPT !.gradients_of_discriminator =
                 TapeGradient(ts.disc_loss, "discriminator")]
  /\ pc' = "ts_apply_gen"
  /\ UNCHANGED <<inputs, nets, outputs, epoch, it, loc, evals, calls, epochLosses>>

\* optimizer.apply_gradients(zip(grads, net.trainable_variables)): one update
Update(optimizer, grads, variables) ==
  [optimizer |-> optimizer, grads |-> grads, variables |-> variables]

\* line 54 followed by a second evaluation of the discriminator on images of the
\* updated generator, from which the discriminator's loss and gradients are retaken
TS_ApplyGen_reevaluated ==
  /\ pc = "ts_apply_gen"
  /\ LET u == Update("generator_optimizer", ts.gradients_of_generator, "generator")
         images2 == Forward("generator", ts.noise, Append(generator, u), evals + 1)
         fake2 == Forward("discriminator", images2, discriminator, evals + 2)
         loss2 == DiscriminatorLoss(ts.real_output, fake2, ts.disc_loss.value)
     IN /\ generator' = Append(generator, u)
        /\ generator_optimizer' = Append(generator_optimizer, u)
        /\ ts' = [ts EXCEPT !.fake_output = fake2, !.fake_evals = @ + 1,
                            !.disc_loss = loss2,
                            !.gradients_of_discriminator =
                                TapeGradient(loss2, "discriminator")]
  /\ evals' = evals + 2
  /\ pc' = "ts_apply_disc"
  /\ UNCHANGED <<inputs, discriminator, discriminator_optimizer, outputs, epoch, it,
                 loc, calls, epochLosses>>

\* line 54
TS_ApplyGen ==
  /\ pc = "ts_apply_gen"
  /\ LET u == Update("generator_optimizer", ts.gradients_of_generator, "generator")
     IN /\ generator' = Append(generator, u)
        /\ generator_optimizer' = Append(generator_optimizer, u)
  /\ pc' = "ts_apply_disc"
  /\ UNCHANGED <<inputs, discriminator, discriminator_optimizer, outputs, epoch, it,
                 loc, ts, evals, calls, epochLosses>>

\* line 55 with the generator's gradients handed to the discriminator's optimizer
TS_ApplyDisc_crossed ==
  /\ pc = "ts_apply_disc"
  /\ LET u == Update("discriminator_optimizer", ts.gradients_of_generator,
                     "discriminator")
     IN /\ discriminator' = Append(discriminator, u)
        /\ discriminator_optimizer' = Append(discriminator_optimizer, u)
  /\ pc' = "ts_return"
  /\ UNCHANGED <<inputs, generator, generator_optimizer, outputs, epoch, it,
                 loc, ts, evals, calls, epochLosses>>

\* line 55
TS_ApplyDisc ==
  /\ pc = "ts_apply_disc"
  /\ LET u == Update("discriminator_optimizer", ts.gradients_of_discriminator,
                     "discriminator")
     IN /\ discriminator' = Append(discriminator, u)
        /\ discriminator_optimizer' = Append(discriminator_optimizer, u)
  /\ pc' = "ts_return"
  /\ UNCHANGED <<inputs, generator, generator_optimizer, outputs, epoch, it,
                 loc, ts, evals, calls, epochLosses>>

\* line 57 and, back in train, lines 72-76
TS_Return ==
  /\ pc = "ts_return"
  /\ loc' = [loc EXCEPT !.bound = TRUE,
                        !.gen_loss = ts.gen_loss.value,
                        !.disc_loss = ts.disc_loss.value,
                        !.gen_loss_sum = @ + ts.gen_loss.value,
                        !.disc_loss_sum = @ + ts.disc_loss.value]
  /\ epochLosses' = Append(epochLosses, <<ts.gen_loss.value, ts.disc_loss.value>>)
  /\ calls' = Append(calls, Call("train_step_done", ts.images.id, 0, NONE, <<>>))
  /\ ts' = EmptyFrame
  /\ pc' = "loop"
  /\ UNCHANGED <<inputs, nets, outputs, epoch, it, evals>>

\* the fault caught around line 72 and the loop carried on with the next batch
TS_Fail_swallowed ==
  /\ pc \in TSPcs
  /\ calls' = Append(calls, Raise(72))
  /\ ts' = EmptyFrame
  /\ pc' = "loop"
  /\ UNCHANGED <<inputs, nets, outputs, epoch, it, loc, evals, epochLosses>>

\* a fault inside train_step (a malformed batch, an exhausted resource): train has
\* no handler, so it leaves train_step and train
TS_Fail ==
  /\ pc \in TSPcs
  /\ calls' = Append(calls, Raise(72))
  /\ ts' = EmptyFrame
  /\ pc' = "aborted"
  /\ UNCHANGED <<inputs, nets, outputs, epoch, it, loc, evals, epochLosses>>

\* ------------------------------------------------------------ train, 60-93
\* lines 61-66: the loop test, then the epoch's running sums and batch count
EpochStart ==
  /\ pc = "epoch"
  /\ IF epoch >= epochs
       THEN /\ pc' = "final"
            /\ UNCHANGED <<loc, it, epochLosses, calls>>
       ELSE /\ loc' = [loc EXCEPT !.gen_loss_sum = 0, !.disc_loss_sum = 0,
                                  !.batch_num = BatchNum(dataset_size, batch_size)]
            /\ it' = 0
            /\ epochLosses' = <<>>
            /\ pc' = "loop"
            /\ UNCHANGED calls
  /\ UNCHANGED <<inputs, nets, outputs, epoch, ts, evals>>

\* line 70 with the loop ending one batch early
LoopNext_short ==
  /\ pc = "loop"
  /\ IF it < Len(dataset) - 1
       THEN /\ ts' = [EmptyFrame EXCEPT !.images = dataset[it + 1],
                                        !.gen0 = Len(generator),
                                        !.disc0 = Len(discriminator)]
            /\ it' = it + 1
            /\ calls' = Append(calls, Call("train_step", dataset[it + 1].id, 0, NONE, <<>>))
            /\ pc' = "ts_generator"
       ELSE /\ pc' = "sample"
            /\ UNCHANGED <<ts, it, calls>>
  /\ UNCHANGED <<inputs, nets, outputs, epoch, loc, evals, epochLosses>>

\* line 70: take the next batch and call train_step on it, or leave the loop
LoopNext ==
  /\ pc = "loop"
  /\ IF it < Len(dataset)
       THEN /\ ts' = [EmptyFrame EXCEPT !.images = dataset[it + 1],
                                        !.gen0 = Len(generator),
                                        !.disc0 = Len(discriminator)]
            /\ it' = it + 1
            /\ calls' = Append(calls, Call("train_step", dataset[it + 1].id, 0, NONE, <<>>))
            /\ pc' = "ts_generator"
       ELSE /\ pc' = "sample"
            /\ UNCHANGED <<ts, it, calls>>
  /\ UNCHANGED <<inputs, nets, outputs, epoch, loc, evals, epochLosses>>

\* line 79 with noise drawn afresh instead of the module's seed
Sample_fresh ==
  /\ pc = "sample"
  /\ \E s \in SeedValues :
       calls' = Append(calls, Call("sample", 0, epoch + 1, s, generator))
  /\ pc' = "save"
  /\ UNCHANGED <<inputs, nets, outputs, epoch, it, loc, ts, evals, epochLosses>>

\* line 79
Sample ==
  /\ pc = "sample"
  /\ calls' = Append(calls, Call("sample", 0, epoch + 1, seed, generator))
  /\ pc' = "save"
  /\ UNCHANGED <<inputs, nets, outputs, epoch, it, loc, ts, evals, epochLosses>>

\* lines 29-32 with the discriminator's optimizer left out of the checkpoint
CheckpointState_partial ==
  [generator_optimizer |-> generator_optimizer,
   discriminator_optimizer |-> <<>>,
   generator |-> generator,
   discriminator |-> discriminator]

\* lines 29-32: what the checkpoint object tracks
CheckpointState ==
  [generator_optimizer |-> generator_optimizer,
   discriminator_optimizer |-> discriminator_optimizer,
   generator |-> generator,
   discriminator |-> discriminator]

\* lines 82-84
CheckpointSave ==
  /\ pc = "save"
  /\ IF (epoch + 1) % SaveEvery = 0
       THEN /\ checkpoints' = Append(checkpoints, CheckpointState)
            /\ calls' = Append(calls, Call("save", 0, 0, NONE, <<>>))
            /\ pc' = "export"
       ELSE /\ pc' = "report"
            /\ UNCHANGED <<checkpoints, calls>>
  /\ UNCHANGED <<inputs, nets, exports, reports, epoch, it, loc, ts, evals, epochLosses>>

\* line 86
Export ==
  /\ pc = "export"
  /\ exports' = Append(exports, [path |-> "./models/1/", generator |-> generator])
  /\ calls' = Append(calls, Call("export", 0, 0, NONE, generator))
  /\ pc' = "report"
  /\ UNCHANGED <<inputs, nets, checkpoints, reports, epoch, it, loc, ts, evals, epochLosses>>

\* a quotient as printed, kept as its two operands
Quot(a, b) == <<a, b>>

\* lines 88-90 with the discriminator's mean taken from its running sum
Report_mean ==
  /\ pc = "report"
  /\ IF it = 0 /\ loc.batch_num = 0
       THEN /\ calls' = Append(calls, Raise(89))
            /\ pc' = "aborted"
            /\ UNCHANGED <<reports, epoch>>
       ELSE /\ reports' = Append(reports,
                  [epoch |-> epoch + 1,
                   gen |-> Quot(loc.gen_loss_sum, loc.batch_num),
                   disc |-> Quot(loc.disc_loss_sum, loc.batch_num)])
            /\ calls' = Append(calls, Call("report", 0, 0, NONE, <<>>))
            /\ epoch' = epoch + 1
            /\ pc' = "epoch"
  /\ UNCHANGED <<inputs, nets, checkpoints, exports, it, loc, ts, evals, epochLosses>>

\* lines 88-90 guarded against an epoch without batches: the lines are skipped
Report_guarded ==
  /\ pc = "report"
  /\ IF it = 0
       THEN /\ calls' = Append(calls, Call("report", 0, 0, NONE, <<>>))
            /\ UNCHANGED reports
       ELSE /\ reports' = Append(reports,
                  [epoch |-> epoch + 1,
                   gen |-> Quot(loc.gen_loss_sum, loc.batch_num),
                   disc |-> Quot(loc.disc_loss, loc.batch_num)])
            /\ calls' = Append(calls, Call("report", 0, 0, NONE, <<>>))
  /\ epoch' = epoch + 1
  /\ pc' = "epoch"
  /\ UNCHANGED <<inputs, nets, checkpoints, exports, it, loc, ts, evals, epochLosses>>

\* lines 88-90.  gen_loss_sum is still the Python float 0.0 when no batch ran, and
\* dividing it by a zero batch_num raises; once a tensor it divides to inf or nan.
\* disc_loss is the loop's last assignment, unbound when no batch ever ran.
Report ==
  /\ pc = "report"
  /\ IF it = 0 /\ loc.batch_num = 0
       THEN /\ calls' = Append(calls, Raise(89))
            /\ pc' = "aborted"
            /\ UNCHANGED <<reports, epoch>>
       ELSE IF ~loc.bound
         THEN /\ reports' = Append(reports,
                    [epoch |-> epoch + 1,
                     gen |-> Quot(loc.gen_loss_sum, loc.batch_num), disc |-> <<>>])
              /\ calls' = Append(calls, Raise(90))
              /\ pc' = "aborted"
              /\ UNCHANGED epoch
         ELSE /\ reports' = Append(reports,
                    [epoch |-> epoch + 1,
                     gen |-> Quot(loc.gen_loss_sum, loc.batch_num),
                     disc |-> Quot(loc.disc_loss, loc.batch_num)])
              /\ calls' = Append(calls, Call("report", 0, 0, NONE, <<>>))
              /\ epoch' = epoch + 1
              /\ pc' = "epoch"
  /\ UNCHANGED <<inputs, nets, checkpoints, exports, it, loc, ts, evals, epochLosses>>

\* line 93 left out: train returns after the last epoch's report
FinalSample_missing ==
  /\ pc = "final"
  /\ pc' = "done"
  /\ UNCHANGED <<inputs, nets, outputs, epoch, it, loc, ts, evals, calls, epochLosses>>

\* line 93
FinalSample ==
  /\ pc = "final"
  /\ calls' = Append(calls, [Call("sample", 0, epochs, seed, generator)
                               EXCEPT !.epoch = 0])
  /\ pc' = "done"
  /\ UNCHANGED <<inputs, nets, outputs, epoch, it, loc, ts, evals, epochLosses>>

Next ==
  \/ EpochStart
  \/ LoopNext
  \/ TS_Generator
  \/ TS_DiscReal
  \/ TS_DiscFake
  \/ TS_Losses
  \/ TS_GradGen
  \/ TS_GradDisc
  \/ TS_ApplyGen
  \/ TS_ApplyDisc
  \/ TS_Return
  \/ TS_Fail
  \/ Sample
  \/ CheckpointSave
  \/ Export
  \/ Report
  \/ FinalSample

Spec == Init /\ [][Next]_vars

\* the end-to-end scenario: one epoch over 8 images in batches of 4
InitScenario ==
  /\ Constructed
  /\ epochs = 1
  /\ dataset_size = 8
  /\ batch_size = 4
  /\ dataset = Batches(8, 4)

SpecScenario == InitScenario /\ [][Next]_vars

\* ------------------------------------------------- the batch count, 64-76
\* one epoch over dataset_size images in batches of batch_size, the last smaller
InitCount ==
  /\ Constructed
  /\ epochs = 1
  /\ dataset_size \in 1..MaxCountSize
  /\ batch_size \in 1..MaxCountBatch
  /\ dataset = Batches(dataset_size, batch_size)

\* lines 70-76 reduced to the iteration count: the loop takes the next batch and
\* train_step runs to its return, or the dataset is exhausted and the loop ends
CountBatch ==
  /\ pc = "loop"
  /\ IF it < Len(dataset)
       THEN /\ it' = it + 1
            /\ pc' = "loop"
       ELSE /\ pc' = "sample"
            /\ UNCHANGED it
  /\ UNCHANGED <<inputs, nets, outputs, epoch, loc, ts, evals, calls, epochLosses>>

NextCount == EpochStart \/ CountBatch

SpecCount == InitCount /\ [][NextCount]_vars

\* ================================================================ properties
NB == Len(dataset)

CallsOf(op) == SelectSeq(calls, LAMBDA c : c.op = op)

InStep == pc \in TSPcs

\* ---------------------------------------------------------------- C1
\* C1: train_step is invoked once on every batch of every epoch, in the order the
\* dataset yields them; every invocation that returns has applied exactly one
\* update to the generator and one to the discriminator; so a run that ends
\* normally has applied epochs * (batches per epoch) updates to each network.
C1_OnceEachInOrder ==
  LET T == CallsOf("train_step")
      D == CallsOf("train_step_done")
  IN /\ \A k \in 1..Len(T) :
          /\ NB > 0
          /\ T[k].epoch = ((k - 1) \div NB) + 1
          /\ T[k].batch = dataset[((k - 1) % NB) + 1].id
     /\ \A k \in 1..Len(D) : D[k].epoch = T[k].epoch /\ D[k].batch = T[k].batch
     /\ Len(T) = epoch * NB + (IF pc \in {"epoch", "final", "done"} THEN 0 ELSE it)
     /\ (pc # "aborted" /\ ~InStep) =>
          /\ Len(D) = Len(T)
          /\ Len(generator) = Len(D)
          /\ Len(discriminator) = Len(D)
     /\ pc = "ts_return" =>
          /\ Len(generator) = ts.gen0 + 1
          /\ Len(discriminator) = ts.disc0 + 1
          /\ Len(D) = Len(T) - 1
     /\ pc = "done" =>
          /\ Len(T) = epochs * NB
          /\ Len(generator) = epochs * NB
          /\ Len(discriminator) = epochs * NB

C1_Witness ==
  /\ pc = "done"
  /\ epochs = 2
  /\ NB = 2
  /\ Len(generator) = 4
  /\ Len(CallsOf("train_step")) = 4

\* ---------------------------------------------------------------- C2
\* C2: every update ever applied to the generator's parameters went through the
\* generator's optimizer with a gradient of the generator loss taken with respect
\* to the generator's parameters, and likewise for the discriminator; each
\* optimizer's state has been touched by exactly the updates of its own network.
OwnUpdate(u, net, optimizer, loss) ==
  /\ u.optimizer = optimizer
  /\ u.variables = net
  /\ u.grads.loss = loss
  /\ u.grads.wrt = net

C2_NoCrossContamination ==
  /\ \A k \in 1..Len(generator) :
       OwnUpdate(generator[k], "generator", "generator_optimizer", "gen_loss")
  /\ \A k \in 1..Len(discriminator) :
       OwnUpdate(discriminator[k], "discriminator", "discriminator_optimizer", "disc_loss")
  /\ generator_optimizer = generator
  /\ discriminator_optimizer = discriminator

C2_Witness ==
  /\ Len(generator) >= 2
  /\ Len(discriminator) >= 2
  /\ Len(generator_optimizer) >= 2
  /\ Len(discriminator_optimizer) >= 2

\* ---------------------------------------------------------------- C3
\* C3: within one train_step the discriminator is evaluated on the fake images
\* once, both losses are computed from that evaluation, no parameter changes
\* before both gradients are computed, and both gradients are taken against the
\* generator and discriminator parameters as they were when the step started.
AtStart(g, gen_version, disc_version, eval) ==
  /\ g.gen_version = gen_version
  /\ g.disc_version = disc_version
  /\ g.fake_eval = eval

C3_OneForwardPass ==
  /\ InStep =>
       /\ ts.fake_evals = (IF pc \in {"ts_generator", "ts_real", "ts_fake"} THEN 0 ELSE 1)
       /\ pc \in {"ts_grad_gen", "ts_grad_disc", "ts_apply_gen", "ts_apply_disc",
                  "ts_return"} =>
            /\ ts.gen_loss.fake = ts.fake_output
            /\ ts.disc_loss.fake = ts.fake_output
            /\ ts.fake_output.version = ts.disc0
            /\ ts.fake_output.input.version = ts.gen0
       /\ (Len(generator) # ts.gen0 \/ Len(discriminator) # ts.disc0) =>
            /\ pc \in {"ts_apply_disc", "ts_return"}
            /\ AtStart(ts.gradients_of_generator, ts.gen0, ts.disc0, ts.fake_output.eval)
            /\ AtStart(ts.gradients_of_discriminator, ts.gen0, ts.disc0,
                       ts.fake_output.eval)
  \* the k-th update of either network was computed against both networks as the
  \* k-1 earlier steps left them, and both from the same evaluation
  /\ \A k \in 1..Len(generator) :
       /\ generator[k].grads.gen_version = k - 1
       /\ generator[k].grads.disc_version = k - 1
  /\ \A k \in 1..Len(discriminator) :
       /\ discriminator[k].grads.gen_version = k - 1
       /\ discriminator[k].grads.disc_version = k - 1
       /\ discriminator[k].grads.fake_eval = generator[k].grads.fake_eval

C3_Witness ==
  /\ pc = "ts_return"
  /\ Len(generator) = 2
  /\ Len(discriminator) = 2
  /\ ts.gradients_of_discriminator.gen_version = 1

\* ---------------------------------------------------------------- C4
\* train raises only when a train_step faults: its own statements do not
OnlyStepFaults == \A k \in 1..Len(calls) : calls[k].op = "raise" => calls[k].label = 72

ScenarioCounts(samples) ==
  /\ Len(CallsOf("train_step_done")) = 2
  /\ Len(generator) = 2
  /\ Len(discriminator) = 2
  /\ Len(checkpoints) = 1
  /\ Len(CallsOf("save")) = 1
  /\ Len(exports) = 1
  /\ Len(CallsOf("export")) = 1
  /\ Len(CallsOf("sample")) = samples
  /\ \A k \in 1..Len(calls) :
       calls[k].op = "sample" =>
          /\ calls[k].seed = seed
          /\ calls[k].seed.shape[1] = 16

Ceil(a, b) == CHOOSE k \in 0..a : k * b >= a /\ (k - 1) * b < a

RECURSIVE Images(_)
Images(batches) ==
  IF batches = <<>> THEN 0 ELSE Head(batches).size + Images(Tail(batches))

\* C5: for dataset_size >= 1 and batch_size >= 1 the batch count that divides the
\* epoch's losses is ceil(dataset_size / batch_size), and it is the number of
\* train-steps the epoch runs over dataset_size images in batches of batch_size
\* with a smaller last batch; for 100 images in batches of 32 both are 4, three
\* batches of 32 and one of 4.
C5_BatchCount ==
  /\ pc # "epoch" => loc.batch_num = Ceil(dataset_size, batch_size)
  /\ pc = "sample" =>
       /\ it = loc.batch_num
       /\ it = Len(dataset)
       /\ Images(dataset) = dataset_size
       /\ \A i \in 1..(it - 1) : dataset[i].size = batch_size
       /\ dataset[it].size \in 1..batch_size
  /\ (pc = "sample" /\ dataset_size = 100 /\ batch_size = 32) =>
       /\ it = 4
       /\ loc.batch_num = 4
       /\ [i \in 1..4 |-> dataset[i].size] = <<32, 32, 32, 4>>

C5_Witness ==
  /\ pc = "sample"
  /\ dataset_size = 100
  /\ batch_size = 32
  /\ it = 4
  /\ loc.batch_num = 4

\* ---------------------------------------------------------------- C6
Positions(op, e) == {k \in 1..Len(calls) : calls[k].op = op /\ calls[k].epoch = e}

\* the sampling call of epoch e comes after every train_step of epochs up to e
\* and before every train_step of later epochs
SampleBetween(e) ==
  \A i \in Positions("sample", e), j \in 1..Len(calls) :
     calls[j].op \in {"train_step", "train_step_done"} =>
        IF calls[j].epoch <= e THEN j < i ELSE i < j

SamplingSchedule ==
  /\ Len(CallsOf("sample")) = epochs + 1
  /\ \A e \in 1..epochs :
       /\ Cardinality(Positions("sample", e)) = 1
       /\ SampleBetween(e)
       /\ Len(SelectSeq(SubSeq(calls, 1, CHOOSE i \in Positions("sample", e) : TRUE),
                        LAMBDA c : c.op = "train_step_done" /\ c.epoch = e)) = NB
  /\ Positions("sample", 0) = {Len(calls)}
  /\ \A k \in 1..Len(calls) : calls[k].op = "sample" => calls[k].seed = seed

\* C6 as stated: a run over N epochs that ends normally invokes sampling once per
\* epoch, between that epoch's last train-step and the next epoch's first, and once
\* more at the end, N+1 times in all, always with the startup seed; the final
\* invocation's label tells it apart from the per-epoch ones.
C6_AsStated ==
  pc = "done" =>
    /\ SamplingSchedule
    /\ \A k \in 1..Len(calls) - 1 :
         calls[k].op = "sample" => calls[k].label # calls[Len(calls)].label

\* C6 amended: the same schedule, N+1 invocations with the startup seed; the
\* per-epoch invocation of epoch e is labelled e and the final one is labelled N,
\* the label of the last epoch's invocation whenever N >= 1.
C6_SamplingSchedule ==
  /\ \A k \in 1..Len(calls) : calls[k].op = "sample" => calls[k].seed = seed
  /\ pc = "done" =>
       /\ SamplingSchedule
       /\ \A k \in 1..Len(calls) - 1 :
            calls[k].op = "sample" => calls[k].label = calls[k].epoch
       /\ calls[Len(calls)].label = epochs

C6_Witness ==
  /\ pc = "done"
  /\ epochs = 2
  /\ NB = 2
  /\ Len(CallsOf("sample")) = 3
  /\ calls[Len(calls)].label = 2
  /\ \E k \in 1..Len(calls) - 1 : calls[k].op = "sample" /\ calls[k].label = 2

\* ---------------------------------------------------------------- C7
\* the full training state as the first n train-steps left it
StateAfter(n) ==
  [generator_optimizer |-> SubSeq(generator_optimizer, 1, n),
   discriminator_optimizer |-> SubSeq(discriminator_optimizer, 1, n),
   generator |-> SubSeq(generator, 1, n),
   discriminator |-> SubSeq(discriminator, 1, n)]

\* every call of epoch e named op comes after all NB train-steps of epochs up to e
\* have returned and before any train-step of a later epoch starts
AfterAllBatches(op, e) ==
  \A i \in Positions(op, e) :
     /\ Len(SelectSeq(SubSeq(calls, 1, i), LAMBDA c : c.op = "train_step_done")) = e * NB
     /\ \A j \in 1..Len(calls) :
          calls[j].op = "train_step" => IF calls[j].epoch <= e THEN j < i ELSE i < j

\* train raised in its loss report, after the epoch's save and export
ReportRaised == pc = "aborted" /\ calls[Len(calls)].label \in {89, 90}

\* the number of epochs whose checkpoint-save has run
SavedEpochs == epoch + (IF pc \in {"export", "report"} \/ ReportRaised THEN 1 ELSE 0)

\* the number of epochs whose export has run
ExportedEpochs == epoch + (IF pc = "report" \/ ReportRaised THEN 1 ELSE 0)

StepFaults == {k \in 1..Len(calls) : calls[k].op = "raise" /\ calls[k].label = 72}

RECURSIVE SumOf(_, _)
SumOf(seq, i) == IF seq = <<>> THEN 0 ELSE Head(seq)[i] + SumOf(Tail(seq), i)

\* an epoch with at least one batch has just been reported
Reported == pc \in {"epoch", "final", "done"} /\ epoch >= 1 /\ epochLosses # <<>>

\* C9: the generator loss reported for an epoch with at least one batch is the sum
\* of the generator losses its train-steps returned (and of no earlier epoch's)
\* over the batch count; the discriminator loss reported is the last batch's
\* discriminator loss alone over the batch count.
C9_ReportedLosses ==
  Reported =>
    /\ Len(reports) = epoch
    /\ Len(epochLosses) = NB
    /\ reports[epoch].epoch = epoch
    /\ reports[epoch].gen = <<SumOf(epochLosses, 1), Ceil(dataset_size, batch_size)>>
    /\ reports[epoch].disc = <<epochLosses[NB][2], Ceil(dataset_size, batch_size)>>

C9_Witness ==
  /\ Reported
  /\ epoch = 2
  /\ NB = 2
  /\ reports[1].gen[1] # reports[2].gen[1]
  /\ reports[2].disc[1] # SumOf(epochLosses, 2)
  /\ reports[2].disc = <<2, 1>>
  /\ reports[2].gen = <<3, 1>>

\* --------------------------------------------------------------- C10
Untrained ==
  [generator_optimizer |-> <<>>, discriminator_optimizer |-> <<>>,
   generator |-> <<>>, discriminator |-> <<>>]

IsPrefix(a, b) == Len(a) <= Len(b) /\ a = SubSeq(b, 1, Len(a))

====
